---- MODULE Spec2Model ----
(***************************************************************************)
(* Green-roof surface controller of src/EcoRoofManager.cc: the two roof    *)
(* hooks CalcEcoRoof (Variant A) and GreenRoof_with_PlantCoverage          *)
(* (Variant B) and the soil-moisture / thermal-property update             *)
(* UpdateSoilProps that both call.                                         *)
(*                                                                         *)
(* Real64 quantities are fixed-point integers:                             *)
(*   volumetric moisture      1e-7 m3/m3                                   *)
(*   soil layer depths        mm                                           *)
(*   water depths (Cum*, Current*, rain, irrigation)   1e-10 m             *)
(*   water flux rates Vfluxf, Vfluxg                   1e-10 m/s           *)
(*   temperatures             0.01 K (Celsius or Kelvin as in the source)  *)
(*   albedo / absorptance     1e-4                                         *)
(*   hydraulic conductivity   1e-12 m/s,  capillary potential  mm          *)
(* A Real64 that has become not-a-number is the value NaN; every           *)
(* comparison with it is false and every arithmetic result of it is NaN,   *)
(* as IEEE-754 has it.                                                     *)
(***************************************************************************)
EXTENDS Integers, Sequences, FiniteSets, TLC

----------------------------------------------------------------------------
(* Fixed-point arithmetic *)

NaN == -(2^30)

Big == 10^9

IsNaN(x) == x = NaN

Abs(x) == IF x < 0 THEN -x ELSE x

Min(a, b) == IF b < a THEN b ELSE a

Max(a, b) == IF a < b THEN b ELSE a

Sat(x) == IF x > Big THEN Big ELSE IF x < -Big THEN -Big ELSE x

\* a / b rounded to the nearest unit, b > 0
RDiv(a, b) == (a + (b \div 2)) \div b

\* Digit base of the long multiplication for a divisor d: d * base <= 2^30
DigitBase(d) ==
    IF d <= 2^15 THEN 2^15
    ELSE IF d <= 2^22 THEN 2^8
    ELSE IF d <= 2^26 THEN 2^4
    ELSE 2

\* << q, r >> with x * y = q * d + r and 0 <= r < d, for 0 <= x < d,
\* y >= 0 and k = DigitBase(d), one digit of y at a time, so that no
\* intermediate leaves 32 bits; a quotient beyond Big is reported as Big
RECURSIVE MulDivRem(_, _, _, _)
MulDivRem(x, y, d, k) ==
    IF y = 0 THEN << 0, 0 >>
    ELSE LET h == MulDivRem(x, y \div k, d, k)
             t == h[2] * k + x * (y % k)
         IN  << IF h[1] >= Big \div k THEN Big
                ELSE Min(Big, h[1] * k + (t \div d)),
                t % d >>

\* x * y / d rounded to the nearest unit, for x, y >= 0 and 0 < d <= 2^29
MulDivPos(x, y, d) ==
    IF x = 0 \/ y <= Big \div x THEN RDiv(x * y, d)
    ELSE IF x >= d /\ y > Big \div (x \div d) THEN Big
    ELSE LET h == MulDivRem(x % d, y, d, DigitBase(d))
             up == IF 2 * h[2] >= d THEN 1 ELSE 0
         IN  Min(Big, (x \div d) * y + h[1] + up)

\* a divisor outside 1 .. 2^29 is not a number
MulDiv(x, y, d) ==
    IF d <= 0 \/ d > 2^29 THEN NaN
    ELSE IF (x < 0) = (y < 0) THEN MulDivPos(Abs(x), Abs(y), d)
    ELSE -MulDivPos(Abs(x), Abs(y), d)

\* IEEE-754 lifting: NaN in, NaN out; comparisons with NaN are false
FAdd(a, b) == IF IsNaN(a) \/ IsNaN(b) THEN NaN ELSE Sat(a + b)

FSub(a, b) == IF IsNaN(a) \/ IsNaN(b) THEN NaN ELSE Sat(a - b)

FMulDiv(a, b, d) == IF IsNaN(a) \/ IsNaN(b) THEN NaN ELSE MulDiv(a, b, d)

FLt(a, b) == ~IsNaN(a) /\ ~IsNaN(b) /\ a < b

FLe(a, b) == ~IsNaN(a) /\ ~IsNaN(b) /\ a <= b

FGt(a, b) == FLt(b, a)

FGe(a, b) == FLe(b, a)

----------------------------------------------------------------------------
(* Program constants and the vegetation property set of the construction *)

KelvinConv == 27315

\* static Real64 MoistureResidual( 0.05 ), MoistureMax( 0.5 )
MoistureResidualDflt == 500000

MoistureMaxDflt == 5000000

\* Divisor of the per-timestep rate band: 20 % per 15 minutes
RateBandMinutes == 15

\* 0.5 inch per hour, in 1e-10 m
InputRateCapPerHour == 127000000

\* top layer of a soil thicker than 0.12 m
TopDepthThick == 60

ThickLimit == 120

\* water density used for Vflux and soil density
RhoWater == 990

----------------------------------------------------------------------------
(* UpdateSoilProps.  s is the program state the call reads and writes (the *)
(* caller's statics passed by reference, the routine's own statics, the    *)
(* module accumulators, the Material record); e is what the host supplies  *)
(* for the timestep (WarmupFlag, MinutesPerTimeStep, RainFall, Irrigation). *)

\* A setup that takes the whole soil as the root zone
USP_Setup_RootIsWholeSoil(s, e) ==
    IF ~s.UpdatebeginFlag THEN s
    ELSE LET top == IF s.SoilThickness > ThickLimit THEN TopDepthThick
                    ELSE RDiv(s.SoilThickness, 2)
         IN  [s EXCEPT !.DryCond = s.Conductivity,
                       !.DryDens = s.Density,
                       !.DryAbsorp = s.AbsorpSolar,
                       !.DrySpecHeat = s.SpecHeat,
                       !.TopDepth = top,
                       !.RootDepth = s.SoilThickness,
                       !.SecondsPerTimeStep = e.MinutesPerTimeStep * 60,
                       !.UpdatebeginFlag = FALSE]

\* One-time setup: dry values and the two layer depths.  depth_limit is
\* computed from TopDepth + RootDepth before RootDepth is assigned; the
\* depth it used is kept in StabilityDepth.
USP_Setup(s, e) ==
    IF ~s.UpdatebeginFlag THEN s
    ELSE LET top == IF s.SoilThickness > ThickLimit THEN TopDepthThick
                    ELSE RDiv(s.SoilThickness, 2)
         IN  [s EXCEPT !.DryCond = s.Conductivity,
                       !.DryDens = s.Density,
                       !.DryAbsorp = s.AbsorpSolar,
                       !.DrySpecHeat = s.SpecHeat,
                       !.TopDepth = top,
                       !.StabilityDepth =
                           IF s.EcoRoofCalculationMethod = 2
                           THEN top + s.RootDepth ELSE s.StabilityDepth,
                       !.RootDepth = s.SoilThickness - top,
                       !.SecondsPerTimeStep = e.MinutesPerTimeStep * 60,
                       !.UpdatebeginFlag = FALSE]

\* The evaporation step with CumET accumulated in warm-up as well
USP_Evap_AlwaysAccumulate(s, e) ==
    LET secs == e.MinutesPerTimeStep * 60
        et   == FMulDiv(FAdd(s.Vfluxg, s.Vfluxf), secs, 1)
    IN  [s EXCEPT !.CurrentRunoff = 0,
                  !.FloorHit = FALSE,
                  !.CeilHit = FALSE,
                  !.TopOver = 0, !.TopClampRunoff = 0,
                  !.RootOver = 0, !.RootClampRunoff = 0,
                  !.Moisture = FSub(s.Moisture,
                                    FMulDiv(s.Vfluxg, secs, s.TopDepth)),
                  !.MeanRootMoisture = FSub(s.MeanRootMoisture,
                                    FMulDiv(s.Vfluxf, secs, s.RootDepth)),
                  !.RootAfterEvap = FSub(s.MeanRootMoisture,
                                    FMulDiv(s.Vfluxf, secs, s.RootDepth)),
                  !.CurrentET = et,
                  !.CumET = FAdd(s.CumET, et)]

\* Evaporation from the top layer, plant extraction from the root zone.
\* RootAfterEvap keeps the MeanRootMoisture this step leaves, for stating
\* properties.
USP_Evap(s, e) ==
    LET secs == e.MinutesPerTimeStep * 60
        et   == FMulDiv(FAdd(s.Vfluxg, s.Vfluxf), secs, 1)
    IN  [s EXCEPT !.CurrentRunoff = 0,
                  !.FloorHit = FALSE,
                  !.CeilHit = FALSE,
                  !.TopOver = 0, !.TopClampRunoff = 0,
                  !.RootOver = 0, !.RootClampRunoff = 0,
                  !.Moisture = FSub(s.Moisture,
                                    FMulDiv(s.Vfluxg, secs, s.TopDepth)),
                  !.MeanRootMoisture = FSub(s.MeanRootMoisture,
                                    FMulDiv(s.Vfluxf, secs, s.RootDepth)),
                  !.RootAfterEvap = FSub(s.MeanRootMoisture,
                                    FMulDiv(s.Vfluxf, secs, s.RootDepth)),
                  !.CurrentET = et,
                  !.CumET = IF e.WarmupFlag THEN s.CumET ELSE FAdd(s.CumET, et)]

\* The precipitation step with CumPrecip accumulated in warm-up as well
USP_Precip_AlwaysAccumulate(s, e) ==
    IF e.RainFall.ModeID = "RainSchedDesign"
    THEN LET p == e.RainFall.CurrentAmount
         IN  [s EXCEPT !.CurrentPrecipitation = p,
                       !.MoistureBeforeInput = s.Moisture,
                       !.Moisture = FAdd(s.Moisture, FMulDiv(p, 1, s.TopDepth)),
                       !.CumPrecip = FAdd(s.CumPrecip, p)]
    ELSE [s EXCEPT !.CurrentPrecipitation = 0,
                   !.MoistureBeforeInput = s.Moisture]

\* Scheduled precipitation into the top layer.  MoistureBeforeInput keeps
\* the Moisture the scheduled water is added to, for stating properties.
USP_Precip(s, e) ==
    IF e.RainFall.ModeID = "RainSchedDesign"
    THEN LET p == e.RainFall.CurrentAmount
         IN  [s EXCEPT !.CurrentPrecipitation = p,
                       !.MoistureBeforeInput = s.Moisture,
                       !.Moisture = FAdd(s.Moisture, FMulDiv(p, 1, s.TopDepth)),
                       !.CumPrecip = IF e.WarmupFlag THEN s.CumPrecip
                                     ELSE FAdd(s.CumPrecip, p)]
    ELSE [s EXCEPT !.CurrentPrecipitation = 0,
                   !.MoistureBeforeInput = s.Moisture]

\* The smart schedule with the threshold fixed at 40% of saturation
SmartIrrigates_FixedThreshold(s, e) ==
    FLt(s.Moisture, MulDiv(40, s.MoistureMax, 100))

\* Whether the smart schedule irrigates: Moisture < IrrigationThreshold x MoistureMax
SmartIrrigates(s, e) ==
    FLt(s.Moisture, MulDiv(e.Irrigation.IrrigationThreshold, s.MoistureMax, 100))

\* Irrigation into the top layer: fixed schedule, or smart schedule
USP_Irrig(s, e) ==
    LET irr == IF e.Irrigation.ModeID = "IrrSchedDesign"
               THEN e.Irrigation.ScheduledAmount
               ELSE IF e.Irrigation.ModeID = "IrrSmartSched" /\ SmartIrrigates(s, e)
               THEN e.Irrigation.ScheduledAmount
               ELSE 0
    IN  [s EXCEPT !.CurrentIrrigation = irr,
                  !.IrrigationActualAmount = irr,
                  !.Moisture = FAdd(s.Moisture, FMulDiv(irr, 1, s.TopDepth)),
                  !.CumIrrigation = IF e.WarmupFlag THEN s.CumIrrigation
                                    ELSE FAdd(s.CumIrrigation, irr)]

\* 0.5 * 0.0254 * MinutesPerTimeStep / 60
InputRateCap(e) == MulDiv(InputRateCapPerHour, e.MinutesPerTimeStep, 60)

\* The rate cap without the subtraction of the excess from Moisture
USP_InputCap_KeepExcess(s, e) ==
    LET inflow == s.CurrentIrrigation + s.CurrentPrecipitation
        run1 == IF inflow > InputRateCap(e) THEN inflow - InputRateCap(e)
                ELSE s.CurrentRunoff
    IN  [s EXCEPT !.CurrentRunoff = run1,
                  !.MoistureAfterInput = s.Moisture,
                  !.RunoffAfterInput = run1]

\* Input-rate cap: the inflow above the cap becomes runoff and is taken
\* back out of the top layer.  MoistureAfterInput and RunoffAfterInput keep
\* what the cap left, for stating properties.
USP_InputCap(s, e) ==
    LET inflow == s.CurrentIrrigation + s.CurrentPrecipitation
        over == inflow > InputRateCap(e)
        run1 == IF over THEN inflow - InputRateCap(e) ELSE s.CurrentRunoff
        m1   == IF over THEN FSub(s.Moisture, FMulDiv(run1, 1, s.TopDepth))
                ELSE s.Moisture
    IN  [s EXCEPT !.CurrentRunoff = run1,
                  !.Moisture = m1,
                  !.MoistureAfterInput = m1,
                  !.RunoffAfterInput = run1]

\* Saturation of the top layer: the excess over MoistureMax runs off
USP_Saturate(s) ==
    IF FGt(s.Moisture, s.MoistureMax)
    THEN [s EXCEPT !.CurrentRunoff =
                       FAdd(@, FMulDiv(FSub(s.Moisture, s.MoistureMax),
                                       s.TopDepth, 1)),
                   !.Moisture = s.MoistureMax]
    ELSE s

\* Input-rate cap, then saturation of the top layer
USP_RateCap(s, e) == USP_Saturate(USP_InputCap(s, e))

\* Depth moved down in one step: 0.00005 per second of the limiting depth
DiffusionDown(s, e) ==
    LET d == Min(MulDiv(s.MoistureMax - s.MeanRootMoisture, s.RootDepth, 1),
                 MulDiv(s.Moisture - s.MeanRootMoisture, s.TopDepth, 1))
    IN  MulDiv(Max(0, d), 3 * e.MinutesPerTimeStep, 1000)

\* The upward step at the downward rate
DiffusionUp_DownwardRate(s, e) ==
    LET d == Min(MulDiv(s.MoistureMax - s.Moisture, s.TopDepth, 1),
                 MulDiv(s.MeanRootMoisture - s.Moisture, s.RootDepth, 1))
    IN  MulDiv(Max(0, d), 3 * e.MinutesPerTimeStep, 1000)

\* Depth moved up in one step: 0.00001 per second of the limiting depth
DiffusionUp(s, e) ==
    LET d == Min(MulDiv(s.MoistureMax - s.Moisture, s.TopDepth, 1),
                 MulDiv(s.MeanRootMoisture - s.Moisture, s.RootDepth, 1))
    IN  MulDiv(Max(0, d), 6 * e.MinutesPerTimeStep, 10000)

\* Redistribution law (a): simple proportional diffusion
USP_Diffusion(s, e) ==
    IF FGt(s.Moisture, s.MeanRootMoisture)
    THEN LET d == DiffusionDown(s, e)
         IN  [s EXCEPT !.Moisture = s.Moisture - RDiv(d, s.TopDepth),
                       !.MeanRootMoisture = s.MeanRootMoisture + RDiv(d, s.RootDepth)]
    ELSE IF FGt(s.MeanRootMoisture, s.Moisture)
    THEN LET d == DiffusionUp(s, e)
         IN  [s EXCEPT !.Moisture = s.Moisture + RDiv(d, s.TopDepth),
                       !.MeanRootMoisture = s.MeanRootMoisture - RDiv(d, s.RootDepth)]
    ELSE s

\* Van Genuchten-Mualem closed forms, tabulated at relative saturations
\* 0, 0.05, ..., 1 from
\*   K = Ksat * S^lambda * (1 - (1 - S^(n/(n-1)))^((n-1)/n))^2     [1e-12 m/s]
\*   h = (-1/alpha) * ((1/S)^(n/(n-1)) - 1)^(1/n)                  [mm]
\* with alpha = 23, n = 1.27, lambda = 0.5, Ksat = 5.157e-7 m/s.  Entry 1 is
\* saturation 0.0001, the floor of the top layer; a potential below
\* -10^9 mm is stored as -10^9.
HydroConductivityTable ==
    << 0, 0, 0, 0, 0, 0, 0, 1, 3, 9, 25, 65, 159, 364, 798, 1694, 3535,
       7396, 16040, 39186, 515700 >>

CapillaryPotentialTable ==
    << -1000000000, -2863529, -219770, -48949, -16861, -7373, -3747, -2111,
       -1281, -821, -549, -379, -268, -192, -138, -100, -71, -48, -31, -16, 0 >>

\* Index 1..21 of the grid point nearest to (m - residual) / (max - residual)
SatIndex(m, s) ==
    1 + Max(0, Min(20, MulDiv(m - s.MoistureResidual, 20,
                              s.MoistureMax - s.MoistureResidual)))

\* RelativeSoilSaturationTop < 0.0001, which the code raises to 0.0001
TopSaturationLow(s) ==
    FLe(FSub(s.Moisture, s.MoistureResidual),
        (s.MoistureMax - s.MoistureResidual - 1) \div 10000)

\* std::pow of a negative base, or of 1 - S^(n/(n-1)) < 0, is not a number:
\* the root zone has no floor on its relative saturation
RootSaturationNaN(s) ==
    \/ IsNaN(s.MeanRootMoisture)
    \/ s.MeanRootMoisture < s.MoistureResidual
    \/ s.MeanRootMoisture > s.MoistureMax

SoilHydroConductivityTop(s) ==
    IF IsNaN(s.Moisture) THEN NaN
    ELSE IF TopSaturationLow(s) THEN HydroConductivityTable[1]
    ELSE HydroConductivityTable[SatIndex(s.Moisture, s)]

CapillaryPotentialTop(s) ==
    IF IsNaN(s.Moisture) THEN NaN
    ELSE IF TopSaturationLow(s) THEN CapillaryPotentialTable[1]
    ELSE CapillaryPotentialTable[SatIndex(s.Moisture, s)]

SoilHydroConductivityRoot(s) ==
    IF RootSaturationNaN(s) THEN NaN
    ELSE HydroConductivityTable[SatIndex(s.MeanRootMoisture, s)]

CapillaryPotentialRoot(s) ==
    IF RootSaturationNaN(s) THEN NaN
    ELSE CapillaryPotentialTable[SatIndex(s.MeanRootMoisture, s)]

\* Kavg * (CapillaryPotentialTop - CapillaryPotentialRoot) / depth + extra,
\* times SecondsPerTimeStep / depth, in moisture units.  x is Kavg x seconds
\* as a water depth.  At a root saturation of exactly 0 the root potential
\* is -infinity: the product is +infinity, or not a number when Kavg is 0.
VGFlux(s, x, dcap, extra, depth) ==
    IF IsNaN(x) \/ IsNaN(dcap) THEN NaN
    ELSE IF s.MeanRootMoisture = s.MoistureResidual
    THEN (IF x = 0 THEN NaN ELSE Big)
    ELSE MulDiv(x, dcap + extra, depth * depth)

\* The two limits of the Van Genuchten branch: 0.9999 * MoistureMax and
\* 1.01 * MoistureResidual
VGCeiling(s) == MulDiv(s.MoistureMax, 9999, 10000)

VGFloor(s) == MulDiv(s.MoistureResidual, 101, 100)

\* Top layer set to m1, the moisture after the exchange: at or above
\* MoistureMax it is set to the ceiling first and the runoff computed from
\* the new value after; at or below the floor it is set to the floor.
\* TopOver keeps the water depth the ceiling took out of the layer and
\* TopClampRunoff what the ceiling added to CurrentRunoff, for stating
\* properties.
VG_TopClamp(s, m1) ==
    LET satT == FGe(m1, s.MoistureMax)
        m2   == IF satT THEN VGCeiling(s) ELSE m1
        lowT == FLe(m2, VGFloor(s))
    IN  [s EXCEPT !.Moisture = IF lowT THEN VGFloor(s) ELSE m2,
                  !.CurrentRunoff =
                      IF satT THEN FAdd(@, (m2 - VGCeiling(s)) * s.TopDepth)
                      ELSE @,
                  !.TopOver =
                      IF satT THEN FMulDiv(FSub(m1, VGCeiling(s)), s.TopDepth, 1)
                      ELSE @,
                  !.TopClampRunoff =
                      IF satT THEN (m2 - VGCeiling(s)) * s.TopDepth ELSE @,
                  !.FloorHit = @ \/ lowT,
                  !.CeilHit = @ \/ satT]

\* Root zone set to r1: the same two limits, the runoff of the ceiling
\* computed from the top layer's Moisture; xr, the drainage out of the
\* root zone, is added to the runoff.  RootOver and RootClampRunoff are to
\* the root zone what TopOver and TopClampRunoff are to the top layer.
VG_RootClamp(s, r1, xr) ==
    LET satR == FGe(r1, s.MoistureMax)
        r2   == IF satR THEN VGCeiling(s) ELSE r1
        lowR == FLe(r2, VGFloor(s))
    IN  [s EXCEPT !.MeanRootMoisture = IF lowR THEN VGFloor(s) ELSE r2,
                  !.TestMoisture = s.MeanRootMoisture,
                  !.CurrentRunoff =
                      FAdd(IF satR
                           THEN FAdd(@, FMulDiv(FSub(s.Moisture, VGCeiling(s)),
                                                s.RootDepth, 1))
                           ELSE @,
                           xr),
                  !.RootOver =
                      IF satR THEN FMulDiv(FSub(r1, VGCeiling(s)), s.RootDepth, 1)
                      ELSE @,
                  !.RootClampRunoff =
                      IF satR THEN FMulDiv(FSub(s.Moisture, VGCeiling(s)),
                                           s.RootDepth, 1)
                      ELSE @,
                  !.FloorHit = @ \/ lowR,
                  !.CeilHit = @ \/ satR]

\* SoilConductivityAveRoot x seconds as a water depth; a root conductivity
\* of at most 2.33e-7 m/h counts as none
VGDrainage(s, kroot) ==
    IF FLe(FMulDiv(kroot, 3600, 1), 233000) THEN 0
    ELSE FMulDiv(kroot, s.SecondsPerTimeStep, 100)

\* The top layer, then the root zone: x is the average conductivity of the
\* two layers x seconds, dcap the potential difference top - root, both of
\* the entry state; the capillary term enters both layers with the same sign
VG_Layers(s, x, dcap, xr) ==
    VG_RootClamp(
        VG_TopClamp(s, FAdd(s.Moisture,
                            VGFlux(s, x, dcap, -s.TopDepth, s.TopDepth))),
        FSub(FAdd(s.MeanRootMoisture,
                  VGFlux(s, x, dcap, s.RootDepth, s.RootDepth)),
             FMulDiv(xr, 1, s.RootDepth)),
        xr)

\* Redistribution law (b): Van Genuchten-Mualem unsaturated flow
USP_VanGenuchten(s, e) ==
    VG_Layers(s,
              FMulDiv(FAdd(SoilHydroConductivityTop(s),
                           SoilHydroConductivityRoot(s)),
                      s.SecondsPerTimeStep, 200),
              FSub(CapillaryPotentialTop(s), CapillaryPotentialRoot(s)),
              VGDrainage(s, SoilHydroConductivityRoot(s)))

\* Runoff total, then the residual floor of the root zone, which borrows
\* its deficit from the top layer; the top layer is floored only here
USP_Final(s, e) ==
    LET res1 == MulDiv(s.MoistureResidual, 100001, 100000)
        s1 == [s EXCEPT !.CumRunoff = IF e.WarmupFlag THEN s.CumRunoff
                                      ELSE FAdd(s.CumRunoff, s.CurrentRunoff)]
    IN  IF FLe(s1.MeanRootMoisture, res1)
        THEN LET m1 == FSub(s1.Moisture,
                            FMulDiv(res1 - s1.MeanRootMoisture,
                                    s1.RootDepth, s1.TopDepth))
             IN  [s1 EXCEPT !.Moisture = IF FLt(m1, res1) THEN res1 ELSE m1,
                            !.MeanRootMoisture = res1,
                            !.FloorHit = TRUE]
        ELSE s1

\* (DryCond / 1.15) * 1.45 exp(4.411 r) / (1 + 0.45 exp(4.411 r)) for
\* DryCond = 10000, tabulated at saturation ratios r = 0, 0.05, ..., 1
ConductivityFactorTable ==
    << 8696, 10070, 11532, 13052, 14596, 16125, 17604, 19002, 20294, 21466,
       22508, 23419, 24206, 24876, 25441, 25913, 26304, 26627, 26891, 27107,
       27283 >>

\* TestRatio = target / current, limited to [RatioMin, RatioMax]; the result
\* is current * TestRatio.  RatioMax, RatioMin = 1 +/- 0.20 * minutes / 15.
RateLimited(target, current, e) ==
    LET den == 5 * RateBandMinutes
        hi == MulDiv(current, den + e.MinutesPerTimeStep, den)
        lo == MulDiv(current, den - e.MinutesPerTimeStep, den)
    IN  IF IsNaN(target) \/ IsNaN(current) THEN NaN
        ELSE IF current = 0 THEN (IF target = 0 THEN NaN ELSE 0)
        ELSE IF target > hi THEN hi
        ELSE IF target < lo THEN lo
        ELSE target

\* new / old lies in [RatioMin, RatioMax]
WithinRateBand(new, old, e) ==
    LET den == 5 * RateBandMinutes
    IN  /\ ~IsNaN(new) /\ ~IsNaN(old)
        /\ new >= MulDiv(old, den - e.MinutesPerTimeStep, den)
        /\ new <= MulDiv(old, den + e.MinutesPerTimeStep, den)

\* Wet-soil absorptance, limited to [0.20, 0.95]
SoilAbsorpSolar(s) ==
    LET a == FAdd(s.DryAbsorp,
                  FMulDiv(FSub(s.Moisture, s.MoistureResidual),
                          9200 - s.DryAbsorp,
                          s.MoistureMax - s.MoistureResidual))
    IN  IF FGt(a, 9500) THEN 9500 ELSE IF FLt(a, 2000) THEN 2000 ELSE a

AvgMoisture(s) ==
    FAdd(FMulDiv(s.MeanRootMoisture, s.RootDepth, s.SoilThickness),
         FMulDiv(s.Moisture, s.TopDepth, s.SoilThickness))

\* The values the properties ought to attain for the current moisture:
\* SoilConductivity, SoilDensity, SoilSpecHeat and 1 - SoilAbsorpSolar
PropTargets(s) ==
    LET avg == AvgMoisture(s)
        dens == FAdd(s.DryDens,
                     FMulDiv(FSub(avg, s.MoistureResidual), RhoWater, 100000))
        spec == FAdd(s.DrySpecHeat, FMulDiv(avg, 19, 1000))
        cond == IF IsNaN(avg) THEN NaN
                ELSE MulDiv(s.DryCond,
                            ConductivityFactorTable[SatIndex(avg, s)], 10000)
    IN  << cond, dens, spec, FSub(10000, SoilAbsorpSolar(s)) >>

\* Thermal property update: albedo, conductivity, density and specific heat
\* move toward their moisture-dependent targets under the rate limiter
USP_Props(s, e, albedo) ==
    LET target == PropTargets(s)
    IN  [s EXCEPT
           ![albedo] = RateLimited(target[4], s[albedo], e),
           !.Conductivity = RateLimited(target[1], s.Conductivity, e),
           !.Density = RateLimited(target[2], s.Density, e),
           !.SpecHeat = RateLimited(target[3], s.SpecHeat, e)]

USP_Redistribute(s, e) ==
    IF s.EcoRoofCalculationMethod = 1 THEN USP_Diffusion(s, e)
    ELSE USP_VanGenuchten(s, e)

\* The moisture update proper: everything up to the residual floor
USP_Moisture(s, e) ==
    USP_Final(USP_Redistribute(USP_RateCap(USP_Irrig(USP_Precip(
        USP_Evap(USP_Setup(s, e), e), e), e), e), e), e)

\* albedo names the variable the caller passes for the soil albedo
UpdateSoilProps(s, e, albedo) == USP_Props(USP_Moisture(s, e), e, albedo)

----------------------------------------------------------------------------
(* The roof hooks.  st is the program state (function statics of both      *)
(* hooks and of UpdateSoilProps, the module-level accumulators, the        *)
(* Material record of the soil layer, the surface temperatures TH and the  *)
(* TempExt out-argument); host is the host framework's state for the       *)
(* timestep; obs records what the calls did, for stating properties; loop  *)
(* is the local state of a Newton loop of Variant B when one is followed   *)
(* step by step.                                                           *)

VARIABLES st, host, obs, loop

vars == << st, host, obs, loop >>

Surfaces == {1, 2}

MaxTimeSteps == 3

MaxCalls == 3

\* A setup that is repeated in every call
HookSetup_EveryCall(s, SurfNum) ==
    [s EXCEPT !.EcoRoofbeginFlag = FALSE,
              !.LAI = s.MaterialLAI,
              !.Alphag = 10000 - s.AbsorpSolar,
              !.MoistureMax = s.Porosity,
              !.MoistureResidual = s.MinMoisture,
              !.Moisture = s.InitMoisture,
              !.MeanRootMoisture = s.InitMoisture,
              !.SoilThickness = s.Thickness,
              !.sigma_f = IF s.Hook = "B" THEN s.PlantCoverage ELSE s.sigma_f,
              !.FirstEcoSurf = SurfNum]

\* First-entry setup, lines 1187-1242 (A) and 319-377 (B)
HookSetup(s, SurfNum) ==
    IF ~s.EcoRoofbeginFlag THEN s
    ELSE [s EXCEPT !.EcoRoofbeginFlag = FALSE,
                   !.LAI = s.MaterialLAI,
                   !.Alphag = 10000 - s.AbsorpSolar,
                   !.MoistureMax = s.Porosity,
                   !.MoistureResidual = s.MinMoisture,
                   !.Moisture = s.InitMoisture,
                   !.MeanRootMoisture = s.InitMoisture,
                   !.SoilThickness = s.Thickness,
                   !.sigma_f = IF s.Hook = "B" THEN s.PlantCoverage
                               ELSE s.sigma_f,
                   !.FirstEcoSurf = SurfNum]

\* The moisture reset applied whatever the flags say
WarmupReset_Always(s, e) ==
    [s EXCEPT !.Moisture = s.InitMoisture,
              !.MeanRootMoisture = s.InitMoisture,
              !.Alphag = 10000 - s.AbsorpSolar]

\* if ( BeginEnvrnFlag || WarmupFlag ): back to the initial moisture
WarmupReset(s, e) ==
    IF e.BeginEnvrnFlag \/ e.WarmupFlag
    THEN [s EXCEPT !.Moisture = s.InitMoisture,
                   !.MeanRootMoisture = s.InitMoisture,
                   !.Alphag = 10000 - s.AbsorpSolar]
    ELSE s

\* An environment reset that never comes due
EnvrnResetDue_Never(s, e) == e.BeginEnvrnFlag /\ ~e.BeginEnvrnFlag

\* if ( BeginEnvrnFlag && MyEnvrnFlag )
EnvrnResetDue(s, e) == e.BeginEnvrnFlag /\ s.MyEnvrnFlag

\* An environment reset that leaves Vfluxf and Vfluxg as they are
EnvrnReset_KeepsFluxes(s, e) ==
    LET s1 == IF ~(e.BeginEnvrnFlag /\ s.MyEnvrnFlag) THEN s
              ELSE LET z == [s EXCEPT !.CumRunoff = 0, !.CumET = 0,
                                      !.CumPrecip = 0, !.CumIrrigation = 0,
                                      !.CurrentRunoff = 0, !.CurrentET = 0,
                                      !.CurrentPrecipitation = 0,
                                      !.CurrentIrrigation = 0,
                                      !.MyEnvrnFlag = FALSE]
                   IN  IF s.Hook = "A"
                       THEN [z EXCEPT !.Tgold = e.OutDryBulb,
                                      !.Tfold = e.OutDryBulb,
                                      !.Tg = 1000, !.Tf = 1000]
                       ELSE [z EXCEPT !.T_soil = e.OutDryBulb + KelvinConv,
                                      !.T_plant = e.OutDryBulb + KelvinConv,
                                      !.T_bare_soil = e.OutDryBulb + KelvinConv]
    IN  IF ~e.BeginEnvrnFlag THEN [s1 EXCEPT !.MyEnvrnFlag = TRUE] ELSE s1

\* An environment reset that leaves MyEnvrnFlag armed
EnvrnReset_StaysArmed(s, e) ==
    IF ~e.BeginEnvrnFlag THEN [s EXCEPT !.MyEnvrnFlag = TRUE]
    ELSE [s EXCEPT !.Vfluxf = 0, !.Vfluxg = 0,
                   !.CumRunoff = 0, !.CumET = 0,
                   !.CumPrecip = 0, !.CumIrrigation = 0,
                   !.CurrentRunoff = 0, !.CurrentET = 0,
                   !.CurrentPrecipitation = 0, !.CurrentIrrigation = 0]

\* if ( BeginEnvrnFlag && MyEnvrnFlag ), then the re-arming of MyEnvrnFlag
EnvrnReset(s, e) ==
    LET s1 == IF ~EnvrnResetDue(s, e) THEN s
              ELSE LET z == [s EXCEPT !.Vfluxf = 0, !.Vfluxg = 0,
                                      !.CumRunoff = 0, !.CumET = 0,
                                      !.CumPrecip = 0, !.CumIrrigation = 0,
                                      !.CurrentRunoff = 0, !.CurrentET = 0,
                                      !.CurrentPrecipitation = 0,
                                      !.CurrentIrrigation = 0,
                                      !.MyEnvrnFlag = FALSE]
                   IN  IF s.Hook = "A"
                       THEN [z EXCEPT !.Tgold = e.OutDryBulb,
                                      !.Tfold = e.OutDryBulb,
                                      !.Tg = 1000, !.Tf = 1000]
                       ELSE [z EXCEPT !.T_soil = e.OutDryBulb + KelvinConv,
                                      !.T_plant = e.OutDryBulb + KelvinConv,
                                      !.T_bare_soil = e.OutDryBulb + KelvinConv]
    IN  IF ~e.BeginEnvrnFlag THEN [s1 EXCEPT !.MyEnvrnFlag = TRUE] ELSE s1

\* A guard that lets every surface through
IsReferenceSurface_AnySurface(s, SurfNum) == SurfNum \in Surfaces

\* if ( SurfNum == FirstEcoSurf )
IsReferenceSurface(s, SurfNum) == SurfNum = s.FirstEcoSurf

\* if ( Vflux < 0.0 ) Vflux = 0.0; a NaN passes the test unchanged
ClampFlux(v) == IF FLt(v, 0) THEN 0 ELSE v

\* What the energy-balance iteration can come to: leaf, vegetated-soil and
\* bare-soil temperature (Celsius), the two raw water flux rates, and the
\* heat fluxes of the plants, the vegetated soil and the bare soil in
\* 0.01 W/m2 (convective, latent, shortwave, longwave).  The outcome of the
\* equations is not computed, only how it is stored.
SolverOutcomes ==
    { [Tleaf |-> 1850, Tsoil |-> 2125, Tbare |-> 2475,
       RawVfluxf |-> -300, RawVfluxg |-> -150,
       Qconv_p |-> -1200, Q_ET_p |-> -700,
       Qconv_s |-> -400, Q_E_s |-> -900, Q_sol_soil |-> 0, Q_IR_s |-> -3100,
       Qconv_bare_s |-> -1500, Q_E_bare_s |-> -600, Q_sol_bare_s |-> 0,
       Q_IR_bare_s |-> -5200],
      [Tleaf |-> 2900, Tsoil |-> 2600, Tbare |-> 3300,
       RawVfluxf |-> 60000, RawVfluxg |-> 30000,
       Qconv_p |-> 9100, Q_ET_p |-> 14800,
       Qconv_s |-> 2300, Q_E_s |-> 7400, Q_sol_soil |-> 11000,
       Q_IR_s |-> -2700,
       Qconv_bare_s |-> 12500, Q_E_bare_s |-> 16100, Q_sol_bare_s |-> 52000,
       Q_IR_bare_s |-> -9800] }

\* Every term of the balance contains Mg = Moisture / MoistureMax
SolverNaN(s) == IsNaN(s.Moisture)

\* Variant A, lines 1281-1490: Tg, Tf start from Tgold, Tfold; three
\* damped iterations; Vfluxf, Vfluxg, Tfold, Tgold are stored
SolveA(s, o) ==
    [s EXCEPT !.Tg = s.Tgold,
              !.Tf = s.Tfold,
              !.Vfluxf = IF SolverNaN(s) THEN NaN ELSE ClampFlux(o.RawVfluxf),
              !.Vfluxg = IF SolverNaN(s) THEN NaN ELSE ClampFlux(o.RawVfluxg),
              !.Tfold = IF SolverNaN(s) THEN NaN ELSE o.Tleaf,
              !.Tgold = IF SolverNaN(s) THEN NaN ELSE o.Tsoil]

\* Alphag = 0.2171 * Mg^2 - 0.4336 * Mg + 0.3143
SoilAlbedoB(s) ==
    IF IsNaN(s.Moisture) THEN NaN
    ELSE LET mg == MulDiv(s.Moisture, 10000, s.MoistureMax)
         IN  MulDiv(MulDiv(2171, mg, 10000), mg, 10000)
             - MulDiv(4336, mg, 10000) + 3143

\* The plain mean of the two parts
CoverageAverage_PlainMean(s, veg, bare) == FMulDiv(FAdd(veg, bare), 1, 2)

\* sigma_f * veg + ( 1 - sigma_f ) * bare
CoverageAverage(s, veg, bare) ==
    FAdd(FMulDiv(veg, s.sigma_f, 100), FMulDiv(bare, 100 - s.sigma_f, 100))

\* The three Newton loops of Variant B, named by the temperature they solve
LoopNames == { "T_plant", "T_soil", "T_bare_soil" }

\* The plant and vegetated-soil loops run unless sigma_f = 0, the bare-soil
\* loop unless sigma_f = 1
LoopRuns(s, which) ==
    IF which = "T_bare_soil" THEN s.sigma_f # 100 ELSE s.sigma_f # 0

\* Variant B, lines 428-764: the plant and vegetated-soil Newton loops run
\* unless sigma_f = 0, the bare-soil loop unless sigma_f = 1
SolveB(s, o) ==
    LET nan == SolverNaN(s)
        tp == IF s.sigma_f = 0 THEN s.T_plant
              ELSE IF nan THEN NaN ELSE o.Tleaf + KelvinConv
        ts == IF s.sigma_f = 0 THEN s.T_soil
              ELSE IF nan THEN NaN ELSE o.Tsoil + KelvinConv
        tb == IF s.sigma_f = 100 THEN s.T_bare_soil
              ELSE IF nan THEN NaN ELSE o.Tbare + KelvinConv
        val(x) == IF nan THEN NaN ELSE x
    IN  [s EXCEPT !.Alphag = SoilAlbedoB(s),
                  !.T_plant = tp,
                  !.T_soil = ts,
                  !.T_bare_soil = tb,
                  !.Tsoil_avg = CoverageAverage(s, ts, tb),
                  !.LoopsRun = { w \in LoopNames : LoopRuns(s, w) },
                  !.Qconv_p_Rep = IF s.sigma_f = 0 THEN @ ELSE val(o.Qconv_p),
                  !.Q_ET_p_Rep = IF s.sigma_f = 0 THEN @ ELSE val(o.Q_ET_p),
                  !.Qconv_s_Rep = IF s.sigma_f = 0 THEN @ ELSE val(o.Qconv_s),
                  !.Q_E_s_Rep = IF s.sigma_f = 0 THEN @
                                ELSE IF nan THEN 0 ELSE Max(0, o.Q_E_s),
                  !.Q_sol_soil_Rep = IF s.sigma_f = 0 THEN @
                                     ELSE val(o.Q_sol_soil),
                  !.Q_IR_s_Rep = IF s.sigma_f = 0 THEN @ ELSE val(o.Q_IR_s),
                  !.Qconv_bare_s_Rep = IF s.sigma_f = 100 THEN @
                                       ELSE val(o.Qconv_bare_s),
                  !.Q_E_bare_s_Rep = IF s.sigma_f = 100 THEN @
                                     ELSE val(o.Q_E_bare_s),
                  !.Q_sol_bare_s_Rep = IF s.sigma_f = 100 THEN @
                                       ELSE val(o.Q_sol_bare_s),
                  !.Q_IR_bare_s_Rep = IF s.sigma_f = 100 THEN @
                                      ELSE val(o.Q_IR_bare_s),
                  !.Vfluxf = IF s.sigma_f = 0 THEN 0
                             ELSE IF nan THEN NaN ELSE ClampFlux(o.RawVfluxf),
                  !.Vfluxg = IF nan THEN NaN ELSE ClampFlux(o.RawVfluxg)]

\* Everything a hook does before it looks at the surface number
HookPrologue(s, e, SurfNum) ==
    EnvrnReset(WarmupReset(HookSetup(s, SurfNum), e), e)

\* The energy balance of a reference-surface call, on the state u the
\* update left; s is the state the update started from
SolvedA(s, u, o) ==
    [final |-> SolveA(u, o), atUpdate |-> s, atSolve |-> u,
     steps |-> << "MoistureUpdate", "PropertyUpdate", "Solve" >>]

SolvedB(s, u, o) ==
    [final |-> SolveB(u, o), atUpdate |-> s, atSolve |-> u,
     steps |-> << "MoistureUpdate", "PropertyUpdate", "Solve" >>]

\* The block of Variant A with the energy balance ahead of the update
ReferenceBlockA_SolveFirst(s, e, o) ==
    LET v == SolveA(s, o)
    IN  [final |-> UpdateSoilProps(v, e, "Alphag"), atUpdate |-> v,
         atSolve |-> s,
         steps |-> << "Solve", "MoistureUpdate", "PropertyUpdate" >>]

\* The block under if ( SurfNum == FirstEcoSurf ) of Variant A: the moisture
\* and property update first, the energy balance after it.  steps lists
\* the parts in the order they ran; atUpdate and atSolve are the states
\* each of them started from.
ReferenceBlockA(s, e, o) ==
    SolvedA(s, UpdateSoilProps(s, e, "Alphag"), o)

\* The same block of Variant B (lines 423-766; the closing brace of line
\* 457 is read as belonging to the else of line 455, as in Variant A)
ReferenceBlockB(s, e, o) ==
    SolvedB(s, UpdateSoilProps(s, e, "Alphag_UnUsed"), o)

\* A call for another surface runs neither
NoBlock(s) == [final |-> s, atUpdate |-> s, atSolve |-> s, steps |-> << >>]

\* The surface temperature taken from the iteration variables Tg, T_soil
StoreSurfaceTemp_Iterate(s, SurfNum) ==
    LET t == IF s.Hook = "A" THEN s.Tg ELSE FSub(s.T_soil, KelvinConv)
    IN  [s EXCEPT !.TH[SurfNum] = t, !.TempExt = t]

\* The report variables with the plant values kept at no coverage
ReportB_KeepPlant(s) ==
    [s EXCEPT !.Tsoil_avg_Rep = FSub(s.Tsoil_avg, KelvinConv),
              !.T_plant_Rep = FSub(s.T_plant, KelvinConv)]

\* The report variables of Variant B, lines 773-789
ReportB(s) ==
    [s EXCEPT !.Tsoil_avg_Rep = FSub(s.Tsoil_avg, KelvinConv),
              !.Qconv_s_avg_Rep =
                  CoverageAverage(s, s.Qconv_s_Rep, s.Qconv_bare_s_Rep),
              !.Q_E_avg_Rep =
                  CoverageAverage(s, s.Q_E_s_Rep, s.Q_E_bare_s_Rep),
              !.Q_sol_s_avg_Rep =
                  CoverageAverage(s, s.Q_sol_soil_Rep, s.Q_sol_bare_s_Rep),
              !.Q_IR_s_avg_Rep =
                  CoverageAverage(s, s.Q_IR_s_Rep, s.Q_IR_bare_s_Rep),
              !.T_plant_Rep = IF s.sigma_f # 0
                              THEN FSub(s.T_plant, KelvinConv) ELSE 0,
              !.Qconv_p_Rep = IF s.sigma_f # 0 THEN @ ELSE 0,
              !.Q_ET_p_Rep = IF s.sigma_f # 0 THEN @ ELSE 0]

\* TH( SurfNum, 1, 1 ) and TempExt, and in Variant B the report variables
StoreSurfaceTemp(s, SurfNum) ==
    LET t == IF s.Hook = "A" THEN s.Tgold ELSE FSub(s.Tsoil_avg, KelvinConv)
        s1 == IF s.Hook = "A" THEN s ELSE ReportB(s)
    IN  [s1 EXCEPT !.TH[SurfNum] = t, !.TempExt = t]

\* The derived soil properties in force: the construction's conductivity,
\* density and specific heat, and the soil albedo of the energy balance
SoilProps(s) == << s.Conductivity, s.Density, s.SpecHeat, s.Alphag >>

\* The carried temperatures a solve starts from
CarriedTemps(s) ==
    IF s.Hook = "A" THEN << s.Tgold, s.Tfold >>
    ELSE << s.T_plant, s.T_soil, s.T_bare_soil >>

\* What one hook call adds to the record of observations: r is the result
\* of the surface-number block, s1 the state after the prologue
Observe(s0, s1, r, s3, e, SurfNum) ==
    LET ran == r.steps # << >>
        reset == EnvrnResetDue(HookSetup(s0, SurfNum), e)
        after == reset \/ obs.resetSince
        fluxId == IF reset THEN 0 ELSE obs.fluxId
        solved == IF ran THEN obs.solveId + 1 ELSE obs.solveId
        count == ran /\ ~e.WarmupFlag
        acc(sum, cur) == IF count THEN FAdd(sum, cur) ELSE sum
    IN  [obs EXCEPT
           !.calls = obs.calls + 1,
           !.total = obs.total + 1,
           !.refCalls = IF SurfNum = s1.FirstEcoSurf THEN obs.refCalls + 1
                        ELSE obs.refCalls,
           !.solves = IF ran THEN obs.solves + 1 ELSE obs.solves,
           !.updates = IF ran THEN obs.updates + 1 ELSE obs.updates,
           !.lastSurf = SurfNum,
           !.steps = r.steps,
           !.afterReset = after,
           !.resetSince = ~ran /\ after,
           !.resetTemp = IF reset THEN e.OutDryBulb ELSE obs.resetTemp,
           !.callWarmup = e.WarmupFlag,
           !.solveId = solved,
           !.fluxId = IF ran THEN solved ELSE fluxId,
           !.consumedId = IF ~ran THEN obs.consumedId
                          ELSE IF r.steps[1] = "Solve" THEN solved
                          ELSE fluxId,
           !.lastSolveTemp = IF ran THEN s3.TempExt ELSE obs.lastSolveTemp,
           !.guess = IF ran THEN CarriedTemps(r.atSolve) ELSE obs.guess,
           !.carried = IF ran THEN CarriedTemps(s3) ELSE obs.carried,
           !.guessFrom = IF ran THEN obs.carried ELSE obs.guessFrom,
           !.atUpdate = IF ran THEN r.atUpdate ELSE obs.atUpdate,
           !.props = IF ran THEN SoilProps(s3) ELSE obs.props,
           !.prevProps = IF ran THEN obs.props ELSE obs.prevProps,
           !.sumPrecip = acc(obs.sumPrecip, s3.CurrentPrecipitation),
           !.sumIrrigation = acc(obs.sumIrrigation, s3.CurrentIrrigation),
           !.sumET = acc(obs.sumET, s3.CurrentET),
           !.sumRunoff = acc(obs.sumRunoff, s3.CurrentRunoff)]

\* Variant A hook, one call for surface SurfNum
CalcEcoRoof(SurfNum) ==
    /\ st.Hook = "A"
    /\ obs.total < MaxCalls
    /\ \E o \in SolverOutcomes :
       \E s1 \in { HookPrologue(st, host, SurfNum) } :
       \E r \in { IF IsReferenceSurface(s1, SurfNum)
                   THEN ReferenceBlockA(s1, host, o) ELSE NoBlock(s1) } :
       \E s3 \in { StoreSurfaceTemp(r.final, SurfNum) } :
          /\ st' = s3
          /\ obs' = Observe(st, s1, r, s3, host, SurfNum)
    /\ UNCHANGED << host, loop >>

\* Variant B hook, one call for surface SurfNum
GreenRoof_with_PlantCoverage(SurfNum) ==
    /\ st.Hook = "B"
    /\ obs.total < MaxCalls
    /\ \E o \in SolverOutcomes :
       \E s1 \in { HookPrologue(st, host, SurfNum) } :
       \E r \in { IF IsReferenceSurface(s1, SurfNum)
                   THEN ReferenceBlockB(s1, host, o) ELSE NoBlock(s1) } :
       \E s3 \in { StoreSurfaceTemp(r.final, SurfNum) } :
          /\ st' = s3
          /\ obs' = Observe(st, s1, r, s3, host, SurfNum)
    /\ UNCHANGED << host, loop >>

----------------------------------------------------------------------------
(* The host framework and the runs *)

\* Vegetation property sets with the host's configuration for the run
Runs ==
    { [Hook |-> "A", Method |-> 1, Thickness |-> 200, Minutes |-> 15,
       InitMoisture |-> 1500000, PlantCoverage |-> 50,
       RainMode |-> "RainSchedDesign", IrrMode |-> "None",
       IrrThreshold |-> 40],
      [Hook |-> "A", Method |-> 2, Thickness |-> 100, Minutes |-> 60,
       InitMoisture |-> 2000000, PlantCoverage |-> 50,
       RainMode |-> "RainSchedDesign", IrrMode |-> "IrrSmartSched",
       IrrThreshold |-> 40],
      [Hook |-> "B", Method |-> 1, Thickness |-> 100, Minutes |-> 60,
       InitMoisture |-> 1000000, PlantCoverage |-> 0,
       RainMode |-> "None", IrrMode |-> "IrrSchedDesign",
       IrrThreshold |-> 40],
      [Hook |-> "B", Method |-> 2, Thickness |-> 200, Minutes |-> 15,
       InitMoisture |-> 3000000, PlantCoverage |-> 50,
       RainMode |-> "RainSchedDesign", IrrMode |-> "None",
       IrrThreshold |-> 40],
      [Hook |-> "B", Method |-> 1, Thickness |-> 200, Minutes |-> 15,
       InitMoisture |-> 2000000, PlantCoverage |-> 100,
       RainMode |-> "RainSchedDesign", IrrMode |-> "None",
       IrrThreshold |-> 40] }

\* Outdoor dry-bulb temperature and the scheduled water of a timestep
Weather ==
    { [OutDryBulb |-> 1200, Rain |-> 0, Irr |-> 0],
      [OutDryBulb |-> 2750, Rain |-> 40000000, Irr |-> 10000000] }

\* Program state before the first call: statics as initialised in the source
InitState(r) ==
    [Hook |-> r.Hook,
     EcoRoofCalculationMethod |-> r.Method,
     InitMoisture |-> r.InitMoisture,
     Porosity |-> MoistureMaxDflt,
     MinMoisture |-> MoistureResidualDflt,
     Thickness |-> r.Thickness,
     PlantCoverage |-> r.PlantCoverage,
     MaterialLAI |-> 100,
     AbsorpSolar |-> 7000,
     Conductivity |-> 4000,
     Density |-> 64100,
     SpecHeat |-> 110000,
     EcoRoofbeginFlag |-> TRUE,
     MyEnvrnFlag |-> TRUE,
     FirstEcoSurf |-> 0,
     Moisture |-> 0,
     MeanRootMoisture |-> 0,
     MoistureMax |-> IF r.Hook = "A" THEN MoistureMaxDflt ELSE 0,
     MoistureResidual |-> IF r.Hook = "A" THEN MoistureResidualDflt ELSE 0,
     SoilThickness |-> IF r.Hook = "A" THEN 200 ELSE 0,
     sigma_f |-> 0,
     LAI |-> IF r.Hook = "A" THEN 20 ELSE 0,
     Alphag |-> IF r.Hook = "A" THEN 3000 ELSE 0,
     Alphag_UnUsed |-> 3000,
     Vfluxf |-> 0, Vfluxg |-> 0,
     Tg |-> 1000, Tf |-> 1000, Tgold |-> 0, Tfold |-> 0,
     T_plant |-> 0, T_soil |-> 0, T_bare_soil |-> 0, Tsoil_avg |-> 0,
     T_plant_Rep |-> 0, Tsoil_avg_Rep |-> 0, LoopsRun |-> {},
     Qconv_p_Rep |-> 0, Q_ET_p_Rep |-> 0,
     Qconv_s_Rep |-> 0, Q_E_s_Rep |-> 0, Q_sol_soil_Rep |-> 0,
     Q_IR_s_Rep |-> 0,
     Qconv_bare_s_Rep |-> 0, Q_E_bare_s_Rep |-> 0, Q_sol_bare_s_Rep |-> 0,
     Q_IR_bare_s_Rep |-> 0,
     Qconv_s_avg_Rep |-> 0, Q_E_avg_Rep |-> 0, Q_sol_s_avg_Rep |-> 0,
     Q_IR_s_avg_Rep |-> 0,
     CumRunoff |-> 0, CumET |-> 0, CumPrecip |-> 0, CumIrrigation |-> 0,
     CurrentRunoff |-> 0, CurrentET |-> 0,
     CurrentPrecipitation |-> 0, CurrentIrrigation |-> 0,
     UpdatebeginFlag |-> TRUE,
     TopDepth |-> 0, RootDepth |-> 0, SecondsPerTimeStep |-> 0,
     StabilityDepth |-> 0,
     DryCond |-> 0, DryDens |-> 0, DryAbsorp |-> 0, DrySpecHeat |-> 0,
     TestMoisture |-> 0, IrrigationActualAmount |-> 0,
     FloorHit |-> FALSE, CeilHit |-> FALSE,
     MoistureBeforeInput |-> 0, MoistureAfterInput |-> 0,
     RunoffAfterInput |-> 0, RootAfterEvap |-> 0,
     TopOver |-> 0, TopClampRunoff |-> 0,
     RootOver |-> 0, RootClampRunoff |-> 0,
     TH |-> [n \in Surfaces |-> 0],
     TempExt |-> 0]

\* Host state of a timestep
HostState(r, n, begin, warm, day, w) ==
    [TimeStep |-> n,
     BeginEnvrnFlag |-> begin,
     WarmupFlag |-> warm,
     BeginDayFlag |-> day,
     OutDryBulb |-> w.OutDryBulb,
     MinutesPerTimeStep |-> r.Minutes,
     RainFall |-> [ModeID |-> r.RainMode, CurrentAmount |-> w.Rain],
     Irrigation |-> [ModeID |-> r.IrrMode, ScheduledAmount |-> w.Irr,
                     IrrigationThreshold |-> r.IrrThreshold],
     Run |-> r]

NoObservation ==
    [calls |-> 0, total |-> 0, refCalls |-> 0, solves |-> 0, updates |-> 0,
     lastSurf |-> 0, steps |-> << >>, afterReset |-> FALSE,
     resetSince |-> FALSE, resetTemp |-> 0,
     callWarmup |-> FALSE, solveId |-> 0, fluxId |-> 0, consumedId |-> 0,
     lastSolveTemp |-> 0, guess |-> << >>, carried |-> << >>,
     guessFrom |-> << >>, atUpdate |-> << >>,
     props |-> << >>, prevProps |-> << >>,
     sumPrecip |-> 0, sumIrrigation |-> 0, sumET |-> 0, sumRunoff |-> 0]

\* No Newton loop is being followed
NoLoop == [pc |-> "idle"]

\* A run starts with the first timestep of an environment
Init ==
    \E r \in Runs, warm \in BOOLEAN, w \in Weather :
        /\ st = InitState(r)
        /\ host = HostState(r, 1, TRUE, warm, TRUE, w)
        /\ obs = NoObservation
        /\ loop = NoLoop

\* The host moves to the next timestep after calling the hook at least
\* once: the next timestep of the environment (warm-up can only end), or
\* the first timestep of a new environment
AdvanceTimeStep ==
    /\ host.TimeStep < MaxTimeSteps
    /\ obs.calls >= 1
    /\ \E begin \in BOOLEAN, warm \in BOOLEAN, day \in BOOLEAN, w \in Weather :
          /\ begin => ~host.BeginEnvrnFlag /\ day
          /\ ~begin /\ warm => host.WarmupFlag
          /\ ~warm /\ ~begin => ~day
          /\ host' = HostState(host.Run, host.TimeStep + 1, begin, warm, day, w)
          /\ obs' = [obs EXCEPT !.calls = 0, !.refCalls = 0, !.solves = 0,
                                !.updates = 0,
                                !.sumPrecip = IF begin THEN 0 ELSE @,
                                !.sumIrrigation = IF begin THEN 0 ELSE @,
                                !.sumET = IF begin THEN 0 ELSE @,
                                !.sumRunoff = IF begin THEN 0 ELSE @]
    /\ UNCHANGED << st, loop >>

Next ==
    \/ \E n \in Surfaces : CalcEcoRoof(n)
    \/ \E n \in Surfaces : GreenRoof_with_PlantCoverage(n)
    \/ AdvanceTimeStep

Spec == Init /\ [][Next]_vars

----------------------------------------------------------------------------
(* UpdateSoilProps on its own: one call from every entry state of a grid   *)

GridSteps == 4

\* Moisture values from MoistureResidual to MoistureMax
\* and the value the residual floor leaves, MoistureResidual * 1.00001
MoistureGrid(s) ==
    { s.MoistureResidual
        + MulDiv(s.MoistureMax - s.MoistureResidual, k, GridSteps) :
      k \in 0 .. GridSteps }
    \cup { MulDiv(s.MoistureResidual, 100001, 100000) }

\* Water flux rates the solve can leave, none negative (ClampFlux)
FluxGrid == { ClampFlux(v) : v \in {-300, 2800, 30000} }

UpdateRuns ==
    { [Hook |-> "A", Method |-> 1, Thickness |-> 200, Minutes |-> 15,
       InitMoisture |-> 1500000, PlantCoverage |-> 50,
       RainMode |-> "RainSchedDesign", IrrMode |-> "None",
       IrrThreshold |-> 40],
      [Hook |-> "B", Method |-> 1, Thickness |-> 100, Minutes |-> 60,
       InitMoisture |-> 1500000, PlantCoverage |-> 50,
       RainMode |-> "None", IrrMode |-> "IrrSchedDesign",
       IrrThreshold |-> 40],
      [Hook |-> "A", Method |-> 2, Thickness |-> 200, Minutes |-> 15,
       InitMoisture |-> 1500000, PlantCoverage |-> 50,
       RainMode |-> "RainSchedDesign", IrrMode |-> "IrrSmartSched",
       IrrThreshold |-> 40],
      [Hook |-> "B", Method |-> 2, Thickness |-> 100, Minutes |-> 60,
       InitMoisture |-> 1500000, PlantCoverage |-> 50,
       RainMode |-> "RainSchedDesign", IrrMode |-> "None",
       IrrThreshold |-> 40],
      [Hook |-> "B", Method |-> 1, Thickness |-> 200, Minutes |-> 15,
       InitMoisture |-> 1500000, PlantCoverage |-> 50,
       RainMode |-> "RainSchedDesign", IrrMode |-> "IrrSmartSched",
       IrrThreshold |-> 70] }

\* Scheduled water of the timestep: none, moderate, rain and irrigation
\* together above the 15-minute rate cap, rain alone beyond every cap
UpdateWater ==
    { [OutDryBulb |-> 2000, Rain |-> 0, Irr |-> 0],
      [OutDryBulb |-> 2000, Rain |-> 20000000, Irr |-> 5000000],
      [OutDryBulb |-> 2000, Rain |-> 30000000, Irr |-> 5000000],
      [OutDryBulb |-> 2000, Rain |-> 150000000, Irr |-> 20000000] }

\* The state a hook hands to UpdateSoilProps: set up, moistures within
\* [MoistureResidual, MoistureMax], fluxes as the last solve left them
InitUpdate ==
    \E r \in UpdateRuns, warm \in BOOLEAN, w \in UpdateWater :
        LET s0 == HookSetup(InitState(r), 1)
        IN  \E m \in MoistureGrid(s0), mr \in MoistureGrid(s0),
               vf \in FluxGrid, vg \in FluxGrid :
                /\ st = [s0 EXCEPT !.Moisture = m, !.MeanRootMoisture = mr,
                                   !.Vfluxf = vf, !.Vfluxg = vg]
                /\ host = HostState(r, 1, FALSE, warm, FALSE, w)
                /\ obs = NoObservation
                /\ loop = NoLoop

\* The argument a hook passes for the soil albedo
AlbedoArgument(s) == IF s.Hook = "A" THEN "Alphag" ELSE "Alphag_UnUsed"

\* One call of UpdateSoilProps
UpdateSoilPropsCall ==
    /\ obs.updates = 0
    /\ st' = UpdateSoilProps(st, host, AlbedoArgument(st))
    /\ obs' = [obs EXCEPT !.updates = 1,
                          !.steps = << "MoistureUpdate", "PropertyUpdate" >>,
                          !.callWarmup = host.WarmupFlag,
                          !.atUpdate = st]
    /\ UNCHANGED << host, loop >>

SpecUpdate == InitUpdate /\ [][UpdateSoilPropsCall]_vars

----------------------------------------------------------------------------
(* UpdateSoilProps called again and again without any forcing: no          *)
(* precipitation, no irrigation, water flux rates of zero                  *)

MaxUpdates == 3

\* Soils from thin to very thick under the simple-diffusion law
DiffusionRuns ==
    { [Hook |-> IF thick > 200 THEN "B" ELSE "A", Method |-> 1,
       Thickness |-> thick, Minutes |-> minutes,
       InitMoisture |-> 1500000, PlantCoverage |-> 50,
       RainMode |-> "RainSchedDesign", IrrMode |-> "IrrSchedDesign",
       IrrThreshold |-> 40] :
      thick \in { 100, 200, 500, 3300, 4000 }, minutes \in { 15, 60 } }

\* Moisture values an update can leave, from the residual floor up to
\* MoistureMax, and a value 0.001 above the middle one; they differ by at
\* least 0.001, far above the rounding of the diffused depth
DiffusionGrid(s) ==
    (MoistureGrid(s) \ { s.MoistureResidual }) \cup { 2760000 }

NoWater == [OutDryBulb |-> 2000, Rain |-> 0, Irr |-> 0]

InitDiffusion ==
    \E r \in DiffusionRuns, warm \in BOOLEAN :
        LET s0 == HookSetup(InitState(r), 1)
        IN  \E m \in DiffusionGrid(s0), mr \in DiffusionGrid(s0) :
                /\ st = [s0 EXCEPT !.Moisture = m, !.MeanRootMoisture = mr]
                /\ host = HostState(r, 1, FALSE, warm, FALSE, NoWater)
                /\ obs = NoObservation
                /\ loop = NoLoop

\* One more call of UpdateSoilProps on the state the last one left
RepeatedUpdate ==
    /\ obs.updates < MaxUpdates
    /\ st' = UpdateSoilProps(st, host, AlbedoArgument(st))
    /\ obs' = [obs EXCEPT !.updates = obs.updates + 1,
                          !.steps = << "MoistureUpdate", "PropertyUpdate" >>,
                          !.callWarmup = host.WarmupFlag,
                          !.atUpdate = st]
    /\ UNCHANGED << host, loop >>

SpecDiffusion == InitDiffusion /\ [][RepeatedUpdate]_vars

----------------------------------------------------------------------------
(* The Newton loops of Variant B on their own: the loop for T_plant (lines *)
(* 482-569), for T_soil (574-657) and for T_bare_soil (661-735) have the   *)
(* same control structure.  Temperatures are in units of 1e-5 K here.  The *)
(* balance function and its derivative are not computed: each evaluation   *)
(* yields a sign and each Newton step a next estimate, any of a small set. *)

\* while ( abs( T_new - T_old ) > 0.0001 )
Tolerance == 10

\* if ( iter >= 100 )
NewtonLimit == 100

\* T_old = T_new + 999 before the first step
FirstOffset == 99900000

\* Sign of a value of the balance function
Signs == { -1, 0, 1 }

\* Estimates a Newton step can come to: two within the tolerance of each
\* other, two farther away on either side
IterateGrid == { 28999366, 29000000, 29000006, 29000646 }

\* ( a < 0.0 && b > 0.0 ) || ( a > 0.0 && b < 0.0 )
OppositeSigns(a, b) == (a < 0 /\ b > 0) \/ (a > 0 /\ b < 0)

\* 0.5 * ( a + b )
Half(a, b) == (a + b) \div 2

\* The exit test of a Newton step with the tolerance looked at first
AfterNewtonStep_ToleranceFirst(it, f, fprev, tnew, told) ==
    IF Abs(tnew - told) <= Tolerance THEN "converged"
    ELSE IF it >= NewtonLimit
    THEN (IF OppositeSigns(f, fprev) THEN "bisect" ELSE "limit")
    ELSE "newton"

\* A loop that keeps stepping at the 100-step mark when there is no sign
\* change
AfterNewtonStep_NoLimitExit(it, f, fprev, tnew, told) ==
    IF it >= NewtonLimit /\ OppositeSigns(f, fprev) THEN "bisect"
    ELSE IF Abs(tnew - told) > Tolerance THEN "newton" ELSE "converged"

\* Where a Newton step goes on: from the 100th step on, into the bisection
\* if the last two function values have opposite signs and out of the loop
\* if not (goto Label); before that, round the loop again unless the
\* while-condition fails
AfterNewtonStep(it, f, fprev, tnew, told) ==
    IF it >= NewtonLimit
    THEN (IF OppositeSigns(f, fprev) THEN "bisect" ELSE "limit")
    ELSE IF Abs(tnew - told) > Tolerance THEN "newton" ELSE "converged"

\* One pass of the do-loop of Newton's method.  f is the function value at
\* T_old; T_new = T_old - f / f' is T_old when f is 0.
NewtonStep ==
    /\ loop.pc = "newton"
    /\ \E f \in Signs :
       \E tnew \in (IF f = 0 THEN { loop.T_new } ELSE IterateGrid) :
       \E next \in { AfterNewtonStep(loop.iter + 1, f, loop.FuncCur,
                                     tnew, loop.T_new) } :
          loop' = [loop EXCEPT
                     !.iter = @ + 1,
                     !.T_old = loop.T_new,
                     !.T_new = tnew,
                     !.SolPrev = loop.SolCur,
                     !.SolCur = loop.T_new,
                     !.FuncPrev = loop.FuncCur,
                     !.FuncCur = f,
                     !.MidPoint = Half(loop.T_new, loop.SolCur),
                     !.metTol = Abs(tnew - loop.T_new) <= Tolerance,
                     !.T_stored = IF next \in { "converged", "limit" }
                                  THEN << tnew >> ELSE loop.T_stored,
                     !.pc = next]
    /\ UNCHANGED << st, host, obs >>

\* if ( iter_Mid == 1 ): the bracket is the last two Newton iterates
BisectEnter(l) ==
    IF l.iter_Mid # 0 THEN l
    ELSE [l EXCEPT !.Func_1 = l.FuncCur, !.Func_2 = l.FuncPrev,
                   !.Sol_1 = l.SolCur, !.Sol_2 = l.SolPrev,
                   !.width = Abs(l.SolCur - l.SolPrev)]

\* The halving: fm is the function value at mid; the end of the bracket
\* whose function value has the sign of fm is replaced by mid; a fm of 0
\* changes nothing
BisectUpdate(l, mid, fm) ==
    IF OppositeSigns(fm, l.Func_1)
    THEN [l EXCEPT !.T_new = Half(mid, l.Sol_1), !.Func_2 = fm, !.Sol_2 = mid]
    ELSE IF OppositeSigns(fm, l.Func_2)
    THEN [l EXCEPT !.T_new = Half(mid, l.Sol_2), !.Func_1 = fm, !.Sol_1 = mid]
    ELSE l

\* A bisection that stops after its first pass
AfterBisectStep_OnePass(tnew, mid) == "bisected"

\* while ( abs( T_new - MidPoint ) > 0.0001 )
AfterBisectStep(tnew, mid) ==
    IF Abs(tnew - mid) > Tolerance THEN "bisect" ELSE "bisected"

\* One pass of the do-loop of the bisection
BisectStep ==
    /\ loop.pc = "bisect"
    /\ \E fm \in Signs :
       \E mid \in { IF loop.iter_Mid >= 1 THEN loop.T_new ELSE loop.MidPoint } :
       \E l2 \in { BisectUpdate(BisectEnter(loop), mid, fm) } :
          loop' = [l2 EXCEPT
                     !.iter_Mid = @ + 1,
                     !.MidPoint = mid,
                     !.zeroAtMid = @ \/ fm = 0,
                     !.T_stored = IF Abs(l2.T_new - mid) > Tolerance
                                  THEN loop.T_stored ELSE << l2.T_new >>,
                     !.pc = AfterBisectStep(l2.T_new, mid)]
    /\ UNCHANGED << st, host, obs >>

\* A loop about to start from the carried temperature t0.  Solution[0] and
\* Func[0] are never assigned: what a read of them yields is any value.
\* T_stored is what the assignment after the loop (Label1100) stores, none
\* so far.
LoopStart(which, t0, s0, f0) ==
    [which |-> which, pc |-> "newton", iter |-> 0,
     T_new |-> t0, T_old |-> t0 + FirstOffset,
     SolCur |-> s0, SolPrev |-> s0, FuncCur |-> f0, FuncPrev |-> f0,
     MidPoint |-> s0, metTol |-> FALSE,
     iter_Mid |-> 0, Func_1 |-> 0, Func_2 |-> 0, Sol_1 |-> 0, Sol_2 |-> 0,
     width |-> 0, zeroAtMid |-> FALSE, T_stored |-> << >>]

InitNewton ==
    \E r \in { x \in Runs : x.Hook = "B" }, which \in LoopNames,
       t0 \in IterateGrid, s0 \in IterateGrid, f0 \in Signs :
        /\ st = HookSetup(InitState(r), 1)
        /\ LoopRuns(st, which)
        /\ host = HostState(r, 1, FALSE, FALSE, FALSE,
                            [OutDryBulb |-> 2000, Rain |-> 0, Irr |-> 0])
        /\ obs = NoObservation
        /\ loop = LoopStart(which, t0, s0, f0)

NextNewton == NewtonStep \/ BisectStep

SpecNewton == InitNewton /\ [][NextNewton]_vars

\* The loop does not stop between two passes
SpecNewtonFair == SpecNewton /\ WF_vars(NextNewton)

----------------------------------------------------------------------------
(* Properties *)

C3_TopMoistureInBounds ==
    obs.updates = 1 =>
        /\ FLe(st.MoistureResidual, st.Moisture)
        /\ FLe(st.Moisture, st.MoistureMax)

\* C4: at the end of every UpdateSoilProps call, under either law,
\* MoistureResidual < MeanRootMoisture <= MoistureMax, for an entry state
\* within bounds with MoistureResidual > 0 and non-negative Vfluxf.
C4_RootMoistureInBounds ==
    obs.updates = 1 /\ st.MoistureResidual > 0 =>
        /\ FLt(st.MoistureResidual, st.MeanRootMoisture)
        /\ FLe(st.MeanRootMoisture, st.MoistureMax)

\* C5 as stated: once set up, Moisture and MeanRootMoisture are written by
\* UpdateSoilProps only; a hook call for a surface other than the reference
\* surface leaves both unchanged.
C5_NonReferenceCallKeepsMoisture ==
    [][ ( /\ ~st.EcoRoofbeginFlag
          /\ obs'.total = obs.total + 1
          /\ obs'.lastSurf # st.FirstEcoSurf )
        => /\ st'.Moisture = st.Moisture
           /\ st'.MeanRootMoisture = st.MeanRootMoisture ]_vars

\* C5: once set up, a hook call for a surface other than the reference
\* surface leaves Moisture and MeanRootMoisture unchanged when neither
\* BeginEnvrnFlag nor WarmupFlag is set; while either is set every hook
\* call, for any surface, puts both back to InitMoisture.
C5_NonReferenceCallOutsideReset ==
    [][ ( /\ ~st.EcoRoofbeginFlag
          /\ obs'.total = obs.total + 1
          /\ obs'.lastSurf # st.FirstEcoSurf )
        => IF host.BeginEnvrnFlag \/ host.WarmupFlag
           THEN /\ st'.Moisture = st.InitMoisture
                /\ st'.MeanRootMoisture = st.InitMoisture
           ELSE /\ st'.Moisture = st.Moisture
                /\ st'.MeanRootMoisture = st.MeanRootMoisture ]_vars

\* A call for the other surface, flags clear, after updates have moved the
\* moisture away from its initial value
C5_Witness ==
    /\ obs.calls >= 1
    /\ obs.lastSurf # st.FirstEcoSurf
    /\ ~host.BeginEnvrnFlag
    /\ ~host.WarmupFlag
    /\ st.Moisture # st.InitMoisture
    /\ st.MeanRootMoisture # st.InitMoisture

C7_ResetAtEnvironmentAndWarmupDay ==
    ( /\ obs.solves = 1
      /\ host.BeginEnvrnFlag \/ (host.WarmupFlag /\ host.BeginDayFlag) )
    => \A i \in DOMAIN obs.guess :
          obs.guess[i] = host.OutDryBulb
                           + (IF st.Hook = "A" THEN 0 ELSE KelvinConv)

\* C7: the carried temperatures are reset to the outdoor dry-bulb
\* temperature by the environment reset only, which runs in the first hook
\* call of a new environment period: a solve with a reset since the
\* previous solve starts from the outdoor temperature of that reset, any
\* other solve, warm-up days included, from the temperatures the previous
\* solve left.
C7_ResetAtEnvironmentOnly ==
    obs.steps # << >> =>
        IF obs.afterReset
        THEN \A i \in DOMAIN obs.guess :
                obs.guess[i] = obs.resetTemp
                                 + (IF st.Hook = "A" THEN 0 ELSE KelvinConv)
        ELSE obs.guess = obs.guessFrom

\* The first solve of a second environment period has started from the
\* outdoor temperature, not from what the previous solve left
C7_Witness ==
    /\ host.TimeStep = 3
    /\ host.BeginEnvrnFlag
    /\ obs.solves = 1
    /\ obs.afterReset
    /\ obs.guess # obs.guessFrom
    /\ obs.guess[1] = host.OutDryBulb + (IF st.Hook = "A" THEN 0 ELSE KelvinConv)

C9_AccumulatorsAreSums ==
    obs.calls >= 1 =>
        /\ st.CumPrecip = obs.sumPrecip
        /\ st.CumIrrigation = obs.sumIrrigation
        /\ st.CumET = obs.sumET
        /\ st.CumRunoff = obs.sumRunoff

\* Two updates outside warm-up have been added up
C9_Witness ==
    /\ obs.calls >= 1
    /\ ~host.WarmupFlag
    /\ st.CurrentET > 0
    /\ st.CumET > st.CurrentET
    /\ st.CumPrecip > st.CurrentPrecipitation
    /\ st.CurrentPrecipitation > 0

\* C10: for a single UpdateSoilProps call, under either law,
\*   CurrentRunoff + (change of Moisture x TopDepth
\*                    + change of MeanRootMoisture x RootDepth)
\*     = CurrentPrecipitation + CurrentIrrigation
\*       - (Vfluxg + Vfluxf) x seconds per timestep
\* whenever no residual-floor clamp was triggered.  The two sides are
\* compared up to the rounding of the fixed-point moistures, 8 units per
\* millimetre of soil.
C10_WaterBalance ==
    obs.updates = 1 /\ ~st.FloorHit =>
        LET stored == FAdd(FMulDiv(FSub(st.Moisture, obs.atUpdate.Moisture),
                                   st.TopDepth, 1),
                           FMulDiv(FSub(st.MeanRootMoisture,
                                        obs.atUpdate.MeanRootMoisture),
                                   st.RootDepth, 1))
            lhs == FAdd(st.CurrentRunoff, stored)
            rhs == FSub(FAdd(st.CurrentPrecipitation, st.CurrentIrrigation),
                        st.CurrentET)
        IN  /\ ~IsNaN(lhs)
            /\ Abs(lhs - rhs) <= 8 * st.SoilThickness

C12_ClampedExcessRunsOff ==
    obs.updates >= 1 /\ obs.steps # << >> =>
        /\ st.TopClampRunoff = st.TopOver
        /\ st.RootClampRunoff = st.RootOver

\* C13 as stated: in each of the three Newton loops the bisection is
\* entered if and only if the loop has reached its 100th step without the
\* change |T_new - T_old| meeting the tolerance, that of the 100th step
\* included, and the last two function values have strictly opposite
\* signs; a loop whose 100th step meets the tolerance exits with the Newton
\* estimate.
C13_BisectionOnlyOffTolerance ==
    loop.pc \notin { "idle", "newton" } =>
        /\ loop.pc \in { "bisect", "bisected" }
             <=> ( /\ loop.iter >= NewtonLimit
                   /\ ~loop.metTol
                   /\ OppositeSigns(loop.FuncCur, loop.FuncPrev) )
        /\ loop.iter >= NewtonLimit /\ loop.metTol
             => loop.pc \in { "converged", "limit" }

\* C13: in each of the three Newton loops the bisection is entered if and
\* only if the loop makes its 100th step, which it does when none of the
\* first 99 steps met the tolerance, and the function values of steps 99
\* and 100 have strictly opposite signs, whether the change of the 100th
\* step meets the tolerance or not.  A 100th step without opposite signs
\* leaves the loop with the Newton estimate, converged or not; an earlier
\* step leaves it exactly when its change meets the tolerance.
C13_BisectionAtLimit ==
    /\ loop.pc = "newton" =>
          /\ loop.iter < NewtonLimit
          /\ loop.iter >= 1 => ~loop.metTol
    /\ loop.pc \in { "bisect", "bisected" }
          <=> ( /\ loop.pc \notin { "idle", "newton" }
                /\ loop.iter = NewtonLimit
                /\ OppositeSigns(loop.FuncCur, loop.FuncPrev) )
    /\ loop.pc = "limit" => loop.iter = NewtonLimit
    /\ loop.pc = "converged" => loop.iter < NewtonLimit /\ loop.metTol

\* The bisection has been entered after a 100th step whose change met the
\* tolerance
C13_Witness ==
    /\ loop.pc = "bisect"
    /\ loop.iter_Mid = 0
    /\ loop.iter = NewtonLimit
    /\ loop.metTol
    /\ loop.which = "T_soil"

\* C14: a bisection loop that has been entered, with the function values
\* at the two bracketing iterates of strictly opposite signs, terminates
\* after finitely many halvings whatever the balance function yields at the
\* midpoints, a value of exactly zero included, and leaves
\* |estimate - last midpoint| <= 1e-4.
C14_BisectionTerminates ==
    (loop.pc = "bisect")
        ~> (loop.pc = "bisected"
            /\ Abs(loop.T_new - loop.MidPoint) <= Tolerance)

\* A bisection has ended after the function was exactly zero at its first
\* midpoint and several halvings followed
C14_Witness ==
    /\ loop.pc = "bisected"
    /\ loop.zeroAtMid
    /\ loop.iter_Mid >= 4
    /\ loop.width > Tolerance
    /\ Abs(loop.T_new - loop.MidPoint) <= Tolerance

\* C15: with plant coverage sigma_f exactly 0, Variant B reports the plant
\* temperature, the plant sensible and latent flux and Vfluxf as 0 after
\* every call; a call that solves skips the plant-temperature loop and
\* returns as TempExt the bare-soil solution, T_bare_soil - 273.15.
C15_NoCoverage ==
    st.Hook = "B" /\ obs.total >= 1 /\ st.sigma_f = 0 =>
        /\ st.T_plant_Rep = 0
        /\ st.Qconv_p_Rep = 0
        /\ st.Q_ET_p_Rep = 0
        /\ st.Vfluxf = 0
        /\ obs.steps # << >> =>
              /\ "T_plant" \notin st.LoopsRun
              /\ "T_bare_soil" \in st.LoopsRun
              /\ st.TempExt = FSub(st.T_bare_soil, KelvinConv)

\* A second solve without coverage has returned its bare-soil temperature
C15_Witness ==
    /\ st.Hook = "B"
    /\ st.sigma_f = 0
    /\ obs.steps # << >>
    /\ obs.solveId >= 2
    /\ st.TempExt = 3300
    /\ st.T_soil # st.T_bare_soil
    /\ st.Vfluxg > 0

\* C16: with plant coverage sigma_f exactly 1, the reported bare-soil
\* sensible, latent, shortwave and longwave fluxes are 0 after every call
\* and the averaged soil fluxes equal the vegetated-soil values; a call
\* that solves skips the bare-soil loop and returns as soil temperature the
\* vegetated-soil solution.
C16_FullCoverage ==
    st.Hook = "B" /\ obs.total >= 1 /\ st.sigma_f = 100 =>
        /\ st.Qconv_bare_s_Rep = 0
        /\ st.Q_E_bare_s_Rep = 0
        /\ st.Q_sol_bare_s_Rep = 0
        /\ st.Q_IR_bare_s_Rep = 0
        /\ st.Qconv_s_avg_Rep = st.Qconv_s_Rep
        /\ st.Q_E_avg_Rep = st.Q_E_s_Rep
        /\ st.Q_sol_s_avg_Rep = st.Q_sol_soil_Rep
        /\ st.Q_IR_s_avg_Rep = st.Q_IR_s_Rep
        /\ st.Tsoil_avg_Rep = st.TempExt
        /\ obs.steps # << >> =>
              /\ "T_bare_soil" \notin st.LoopsRun
              /\ "T_soil" \in st.LoopsRun
              /\ st.TempExt = FSub(st.T_soil, KelvinConv)

\* A second solve with full coverage has returned its vegetated-soil values
C16_Witness ==
    /\ st.Hook = "B"
    /\ st.sigma_f = 100
    /\ obs.steps # << >>
    /\ obs.solveId >= 2
    /\ st.TempExt = 2600
    /\ st.Qconv_s_avg_Rep = 2300
    /\ st.Q_sol_s_avg_Rep = 11000
    /\ st.T_soil # st.T_bare_soil

\* C17: after every solve of either variant Vfluxf >= 0 and Vfluxg >= 0,
\* so that in the moisture update CurrentET >= 0 and the evaporation step
\* increases neither Moisture nor MeanRootMoisture.
C17_FluxesNonNegative ==
    /\ FGe(st.Vfluxf, 0)
    /\ FGe(st.Vfluxg, 0)
    /\ obs.steps # << >> =>
          /\ FGe(st.CurrentET, 0)
          /\ FLe(st.MoistureBeforeInput, obs.atUpdate.Moisture)
          /\ FLe(st.RootAfterEvap, obs.atUpdate.MeanRootMoisture)

\* C18: each derived soil property (conductivity, density, specific heat,
\* and the soil albedo the solver uses) after an update, divided by its
\* value after the previous update, lies within
\* [1 - 0.20 * MinutesPerTimeStep / 15, 1 + 0.20 * MinutesPerTimeStep / 15],
\* in warm-up timesteps too and in both variants.  Only values that are
\* numbers are judged.
C18_PropertyRateLimited ==
    (obs.steps # << >> /\ obs.prevProps # << >>) =>
        \A i \in 1..4 :
            (~IsNaN(obs.props[i]) /\ ~IsNaN(obs.prevProps[i])) =>
                WithinRateBand(obs.props[i], obs.prevProps[i], host)

\* The Moisture the irrigation test sees: the Moisture the evaporation left
\* plus the precipitation put into the top layer
C19_MoistureAfterPrecip ==
    FAdd(st.MoistureBeforeInput,
         FMulDiv(st.CurrentPrecipitation, 1, st.TopDepth))

C19_BelowThreshold ==
    FLt(C19_MoistureAfterPrecip,
        MulDiv(host.Irrigation.IrrigationThreshold, st.MoistureMax, 100))

C20_DifferenceShrinks ==
    obs.updates >= 1 =>
        Abs(st.Moisture - st.MeanRootMoisture)
            <= Abs(obs.atUpdate.Moisture - obs.atUpdate.MeanRootMoisture)

\* The upward step changes the difference by at most twice its size:
\* 0.0006 * MinutesPerTimeStep * SoilThickness / TopDepth <= 2
C20_Stable ==
    6 * host.MinutesPerTimeStep * (st.TopDepth + st.RootDepth)
        <= 20000 * st.TopDepth

\* C20 (amended): under the simple-diffusion law, without precipitation,
\* irrigation and evapotranspiration, no update leaves
\* |Moisture - MeanRootMoisture| larger than it found it, provided
\* 0.0006 * MinutesPerTimeStep * SoilThickness / TopDepth <= 2.
C20_DifferenceShrinksWhenStable ==
    (obs.updates >= 1 /\ C20_Stable) =>
        Abs(st.Moisture - st.MeanRootMoisture)
            <= Abs(obs.atUpdate.Moisture - obs.atUpdate.MeanRootMoisture)

\* An upward step that overshoots: the root zone was wetter before the
\* update and the top layer is wetter after it
C20_Witness ==
    /\ obs.updates >= 1
    /\ C20_Stable
    /\ obs.atUpdate.MeanRootMoisture > obs.atUpdate.Moisture
    /\ st.Moisture > st.MeanRootMoisture

\* The state the last update started from, with the layer depths in force,
\* and the same state with the two reservoirs exchanged
C21_Entry ==
    [st EXCEPT !.Moisture = obs.atUpdate.Moisture,
               !.MeanRootMoisture = obs.atUpdate.MeanRootMoisture]

C21_Mirror ==
    [st EXCEPT !.Moisture = obs.atUpdate.MeanRootMoisture,
               !.MeanRootMoisture = obs.atUpdate.Moisture]

\* Neither step is limited by the room left in the receiving layer
C21_CapacityNotBinding ==
    /\ MulDiv(st.MoistureMax - C21_Entry.MeanRootMoisture, st.RootDepth, 1)
         >= MulDiv(C21_Entry.Moisture - C21_Entry.MeanRootMoisture,
                   st.TopDepth, 1)
    /\ MulDiv(st.MoistureMax - C21_Mirror.Moisture, st.TopDepth, 1)
         >= MulDiv(C21_Mirror.MeanRootMoisture - C21_Mirror.Moisture,
                   st.RootDepth, 1)

\* C21: under the simple-diffusion law, for the same absolute moisture
\* difference and with the capacity limit not binding, the depth moved from
\* the top layer to the root zone in one step is greater than the depth
\* that would be moved from the root zone to the top layer, for every soil
\* thickness.
C21_DownFasterThanUp ==
    (/\ obs.updates >= 1
     /\ obs.atUpdate.Moisture > obs.atUpdate.MeanRootMoisture
     /\ C21_CapacityNotBinding)
        => DiffusionDown(C21_Entry, host) > DiffusionUp(C21_Mirror, host)

\* C22: each Newton loop of Variant B makes at most 100 Newton steps, so
\* the iterate histories are indexed within 0..100; a 100th step without a
\* sign change between the last two function values leaves the loop, and
\* the Newton estimate of that step is stored as the temperature.
C22_LimitAcceptsNewton ==
    loop.pc # "idle" =>
        /\ loop.iter <= NewtonLimit
        /\ (/\ loop.iter = NewtonLimit
            /\ ~OppositeSigns(loop.FuncCur, loop.FuncPrev))
              => /\ loop.pc = "limit"
                 /\ loop.iter_Mid = 0
                 /\ loop.T_stored = << loop.T_new >>
        /\ loop.pc = "limit" => loop.iter = NewtonLimit

\* The bare-soil loop has left at the 100-step mark with an estimate whose
\* last change is above the tolerance
C22_Witness ==
    /\ loop.pc = "limit"
    /\ loop.which = "T_bare_soil"
    /\ Abs(loop.T_new - loop.T_old) > Tolerance
    /\ loop.T_stored = << loop.T_new >>

\* The vegetation and soil properties the one-time setup reads
SetupProps(s) ==
    << s.LAI, s.MoistureMax, s.MoistureResidual, s.SoilThickness, s.sigma_f >>

\* C23: the setup runs once: the first hook call sets FirstEcoSurf to its
\* SurfNum and reads LAI, MoistureMax, MoistureResidual, SoilThickness and
\* the coverage from the material; no later call changes any of them
C23_SetupOnce ==
    [][/\ obs.total = 0 /\ obs'.total = 1 =>
           /\ ~st'.EcoRoofbeginFlag
           /\ st'.FirstEcoSurf = obs'.lastSurf
           /\ SetupProps(st') =
                 << st.MaterialLAI, st.Porosity, st.MinMoisture, st.Thickness,
                    IF st.Hook = "B" THEN st.PlantCoverage ELSE st.sigma_f >>
       /\ obs.total >= 1 =>
           /\ ~st.EcoRoofbeginFlag /\ ~st'.EcoRoofbeginFlag
           /\ st'.FirstEcoSurf = st.FirstEcoSurf
           /\ SetupProps(st') = SetupProps(st)]_vars

\* A later call for another surface has left the setup of surface 2 alone
C23_Witness ==
    /\ obs.total >= 2
    /\ st.FirstEcoSurf = 2
    /\ obs.lastSurf = 1
    /\ st.Hook = "B"
    /\ SetupProps(st) =
          << st.MaterialLAI, st.Porosity, st.MinMoisture, st.Thickness,
             st.PlantCoverage >>

\* The water accumulators and the per-timestep water values
Accumulators(s) == << s.CumRunoff, s.CumET, s.CumPrecip, s.CumIrrigation >>

Currents(s) ==
    << s.CurrentRunoff, s.CurrentET, s.CurrentPrecipitation,
       s.CurrentIrrigation >>

\* C24: the accumulators and the Current* values are reset to 0 by the first
\* hook call of a timestep that has BeginEnvrnFlag set and by no other call:
\* after that call the accumulators hold what the call itself added, after
\* any other call what they held plus what the call added; a call leaves
\* the reset armed exactly when BeginEnvrnFlag is clear
C24_ResetOncePerEnvironment ==
    [][obs'.total = obs.total + 1 =>
         LET ran == obs'.steps # << >>
             counted == ran /\ ~host.WarmupFlag
             first == host.BeginEnvrnFlag /\ obs.calls = 0
             zero == << 0, 0, 0, 0 >>
             base == IF first THEN zero ELSE Accumulators(st)
         IN  /\ Accumulators(st') =
                   IF counted
                   THEN [i \in 1..4 |-> FAdd(base[i], Currents(st')[i])]
                   ELSE base
             /\ ~ran => Currents(st') = IF first THEN zero ELSE Currents(st)
             /\ st'.MyEnvrnFlag = ~host.BeginEnvrnFlag]_vars

\* A second update made while BeginEnvrnFlag is still set has added to what
\* the first one accumulated
C24_Witness ==
    /\ host.BeginEnvrnFlag
    /\ obs.calls >= 2
    /\ obs.steps # << >>
    /\ st.CurrentPrecipitation > 0
    /\ st.CumPrecip > st.CurrentPrecipitation
    /\ ~st.MyEnvrnFlag

\* C25: the stability check of the Van Genuchten method is made on the total
\* soil thickness: the depth TopDepth + RootDepth that depth_limit was
\* computed from equals SoilThickness
C25_StabilityOnTotalThickness ==
    st.EcoRoofCalculationMethod = 2 /\ ~st.UpdatebeginFlag =>
        st.StabilityDepth = st.SoilThickness

\* C26: after an UpdateSoilProps call from an in-bounds moisture state,
\* under either law, CurrentRunoff >= 0 and CumRunoff is not below what it
\* was when the call started.  Only numeric values are judged.
C26_RunoffNonNegative ==
    obs.updates = 1 /\ ~IsNaN(st.CurrentRunoff) /\ ~IsNaN(st.CumRunoff) =>
        /\ st.CurrentRunoff >= 0
        /\ st.CumRunoff >= obs.atUpdate.CumRunoff

\* The four limited values as UpdateSoilProps holds them: the material's
\* conductivity, density and specific heat and the albedo argument
LimitedProps(s) ==
    << s.Conductivity, s.Density, s.SpecHeat, s[AlbedoArgument(s)] >>

\* x is a number in the closed interval between a and b
C27_Between(x, a, b) ==
    /\ ~IsNaN(x) /\ ~IsNaN(a) /\ ~IsNaN(b)
    /\ Min(a, b) <= x
    /\ x <= Max(a, b)

\* C27: for conductivity, density, specific heat and albedo, the value an
\* UpdateSoilProps call writes lies in the closed interval between the value
\* on entry and the moisture-derived target, whenever the value on entry is
\* positive and MinutesPerTimeStep <= 60
C27_NoOvershoot ==
    obs.updates = 1 /\ host.MinutesPerTimeStep <= 60 =>
        \A i \in 1..4 :
            FGt(LimitedProps(obs.atUpdate)[i], 0) =>
                C27_Between(LimitedProps(st)[i], LimitedProps(obs.atUpdate)[i],
                            PropTargets(st)[i])

\* x lies in the closed interval between the two Newton iterates the
\* bisection started from
C28_InStartInterval(x) ==
    /\ Min(loop.SolCur, loop.SolPrev) <= x
    /\ x <= Max(loop.SolCur, loop.SolPrev)

\* C28: throughout a bisection loop Func_1 and Func_2 have strictly opposite
\* signs, and every midpoint evaluated and the estimate finally returned lie
\* in the closed interval between the two Newton iterates that started the
\* bisection
C28_BracketValid ==
    loop.iter_Mid >= 1 =>
        /\ OppositeSigns(loop.Func_1, loop.Func_2)
        /\ C28_InStartInterval(loop.MidPoint)
        /\ loop.pc = "bisected" => C28_InStartInterval(loop.T_new)

\* The last moisture update started from zero Vfluxf and Vfluxg, extracted
\* nothing and left both reservoirs as they were in its evaporation step
C29_NothingExtracted ==
    /\ obs.atUpdate.Vfluxf = 0
    /\ obs.atUpdate.Vfluxg = 0
    /\ st.CurrentET = 0
    /\ st.MoistureBeforeInput = obs.atUpdate.Moisture
    /\ st.RootAfterEvap = obs.atUpdate.MeanRootMoisture

C30_DepthsFixed ==
    [][/\ (~st'.UpdatebeginFlag /\ st'.SoilThickness > 0) =>
           /\ st'.TopDepth > 0
           /\ st'.RootDepth > 0
           /\ st'.TopDepth + st'.RootDepth = st'.SoilThickness
           /\ st'.TopDepth = USP_Setup(obs'.atUpdate, host).TopDepth
           /\ st'.RootDepth = USP_Setup(obs'.atUpdate, host).RootDepth
       /\ ~st.UpdatebeginFlag =>
           /\ st'.TopDepth = st.TopDepth
           /\ st'.RootDepth = st.RootDepth]_vars

\* A thin soil, split in halves, after its third update
C30_Witness ==
    /\ ~st.UpdatebeginFlag
    /\ obs.updates = MaxUpdates
    /\ st.SoilThickness <= ThickLimit
    /\ st.TopDepth = st.RootDepth
    /\ st.TopDepth + st.RootDepth = st.SoilThickness
    /\ st.TopDepth > 0

====
